---- MODULE Spec2Model ----
(***************************************************************************)
(* Fleet simulation (backend/simulation.py) and routing client             *)
(* (backend/routing_engine.py) of nyash_logistics.                         *)
(*                                                                         *)
(* Units.  Coordinates are fixed-point, 1 unit = 0.0001 degree (every      *)
(* catalog coordinate has four decimals).  Fuel is kept in units of 1/200  *)
(* percent, which makes 0.5 * (1 + capacity/100) the integer               *)
(* 100 + capacity.  Time of the routing client is kept in units of 0.5 s.  *)
(***************************************************************************)
EXTENDS Integers, Sequences, FiniteSets, TLC

VARIABLES
    trucks,        \* Simulation.trucks: truck id -> TruckState
    route_active,  \* ROUTES[r].is_active
    current_time,  \* Simulation.current_time, in ticks since 08:00
    tick,          \* position of the simulation_loop/tick coroutine
    manual,        \* trigger_event coroutines suspended in agent_service.decide
    nInputs,       \* random hits, manual events and operator requests so far
    held,          \* history: per truck, the route the tick held it on at its
                   \* last turn ("" if it was not held) and whether a
                   \* ROAD_CLOSED request has been raised for it since the
                   \* route was last toggled
    drawn,         \* history: the trucks whose turn of the running tick has
                   \* reached the random draw of line 119
    initial_config,   \* Simulation.initial_config
    simulation_task,  \* main.simulation_task: "none", or "active" (not done)
    loops,            \* history: simulation_loop coroutines started and not finished
    orphans,          \* manual requests whose TruckState _init_trucks has replaced
    response,         \* what the last trigger_event call returned
    now,                 \* time.time(), in units of 0.5 s
    route_cache,         \* _ROUTE_CACHE
    table_cache,         \* _TABLE_CACHE
    last_osrm_call,      \* _LAST_OSRM_CALL
    circuit_open,        \* _OSRM_CIRCUIT_OPEN
    circuit_reset_time,  \* _OSRM_CIRCUIT_RESET_TIME
    callers,             \* the coroutines inside get_route / get_distance_matrix
    provider,            \* history: the provider's last request, last 429, answered routes
    nCalls               \* calls of the routing client so far (bounded)

appVars == <<initial_config, simulation_task, loops, orphans, response>>

simVars == <<trucks, route_active, current_time, tick, manual, nInputs, held, drawn,
             appVars>>

routeVars == <<now, route_cache, table_cache, last_osrm_call, circuit_open,
               circuit_reset_time, callers, provider, nCalls>>

vars == <<simVars, routeVars>>

----------------------------------------------------------------------------
(* Bounds of the model *)

\* ticks of the simulation loop
MaxTicks == 3

\* inputs from outside: hits of the random draw, manual events, route toggles
MaxInputs == 1

\* calls of get_route and get_distance_matrix
MaxCalls == 3

----------------------------------------------------------------------------
(* map_data.py *)

LOCATIONS_COORDS ==
    [ HUB_SOUTH       |-> <<184466, 738567>>,
      HUB_EAST        |-> <<185089, 739260>>,
      HUB_NORTH_EAST  |-> <<185793, 739787>>,
      DEST_WEST       |-> <<185913, 737389>>,
      DEST_NORTH      |-> <<187606, 738635>>,
      DEST_NORTH_WEST |-> <<187217, 736756>>,
      J_CENTRAL       |-> <<185204, 738567>>,
      J_BYPASS        |-> <<185074, 738077>>,
      J_NORTH         |-> <<186298, 737997>> ]

Route(o, d, t) == [origin |-> o, destination |-> d, base_time_min |-> t]

ROUTES ==
    [ R_SW_HWY       |-> Route("HUB_SOUTH", "DEST_WEST", 30),
      R_SW_CITY      |-> Route("HUB_SOUTH", "DEST_WEST", 55),
      R_SW_SATELLITE |-> Route("HUB_SOUTH", "DEST_WEST", 45),
      R_EN_HWY       |-> Route("HUB_EAST", "DEST_NORTH", 70),
      R_EN_BYPASS    |-> Route("HUB_EAST", "DEST_NORTH", 85),
      R_EN_VILLAGE   |-> Route("HUB_EAST", "DEST_NORTH", 110),
      R_NENW_DIRECT  |-> Route("HUB_NORTH_EAST", "DEST_NORTH_WEST", 60),
      R_NENW_ALT     |-> Route("HUB_NORTH_EAST", "DEST_NORTH_WEST", 90) ]

\* Insertion order of the ROUTES dict (the order ROUTES.values() iterates in).
RouteOrder ==
    << "R_SW_HWY", "R_SW_CITY", "R_SW_SATELLITE", "R_EN_HWY", "R_EN_BYPASS",
       "R_EN_VILLAGE", "R_NENW_DIRECT", "R_NENW_ALT" >>

ROUTE_PATHS ==
    [ R_SW_HWY       |-> <<"J_BYPASS", "DEST_WEST">>,
      R_SW_CITY      |-> <<"J_CENTRAL", "DEST_WEST">>,
      R_SW_SATELLITE |-> <<"J_CENTRAL", "J_NORTH", "DEST_WEST">>,
      R_EN_HWY       |-> <<"J_CENTRAL", "J_NORTH", "DEST_NORTH">>,
      R_EN_BYPASS    |-> <<"J_BYPASS", "J_CENTRAL", "DEST_NORTH">>,
      R_EN_VILLAGE   |-> <<"HUB_NORTH_EAST", "DEST_NORTH">>,
      R_NENW_DIRECT  |-> <<"J_NORTH", "DEST_NORTH_WEST">>,
      R_NENW_ALT     |-> <<"J_CENTRAL", "DEST_NORTH_WEST">> ]

RouteIds == DOMAIN ROUTES

\* The ids s with s.startswith("FUEL") / "FUEL" in s, among all ids of the model.
FuelNamed == {"FUEL_A", "FUEL_B"}

----------------------------------------------------------------------------
(* models.py: TruckState *)

TruckIds == {"T1", "T2", "T3"}

TruckOrder == <<"T1", "T2", "T3">>

\* Simulation._resolve_route: ids that are not in the catalog are skipped.
_resolve_route(route_nodes) ==
    LET known == SelectSeq(route_nodes, LAMBDA nid : nid \in DOMAIN LOCATIONS_COORDS)
    IN  [i \in 1..Len(known) |-> LOCATIONS_COORDS[known[i]]]

NewTruck(start, dest, path, fuel, cap, eta, rid) ==
    [ current_node          |-> start,
      destination_node      |-> dest,
      route_nodes           |-> path,
      location              |-> LOCATIONS_COORDS[start],
      fuel_percent          |-> fuel * 200,
      capacity_used_percent |-> cap,
      status                |-> "EN_ROUTE",
      wait_time_ticks       |-> 0,
      eta_minutes           |-> eta,
      alerts                |-> <<>>,
      thoughts              |-> <<>>,
      route_coordinates     |-> _resolve_route(path),
      active_route_id       |-> rid ]

\* Simulation.__init__: the default initial_config.
DefaultConfig ==
    [ T1 |-> [fuel_percent |-> 100, capacity_used_percent |-> 80],
      T2 |-> [fuel_percent |-> 90,  capacity_used_percent |-> 60],
      T3 |-> [fuel_percent |-> 85,  capacity_used_percent |-> 70] ]

\* Simulation._init_trucks
_init_trucks(cfg) ==
    [ T1 |-> NewTruck("HUB_SOUTH", "DEST_WEST",
                      <<"HUB_SOUTH", "J_BYPASS", "DEST_WEST">>,
                      cfg.T1.fuel_percent, cfg.T1.capacity_used_percent, 30, "R_SW_HWY"),
      T2 |-> NewTruck("HUB_EAST", "DEST_NORTH",
                      <<"HUB_EAST", "J_CENTRAL", "J_NORTH", "DEST_NORTH">>,
                      cfg.T2.fuel_percent, cfg.T2.capacity_used_percent, 70, "R_EN_HWY"),
      T3 |-> NewTruck("HUB_NORTH_EAST", "DEST_NORTH_WEST",
                      <<"HUB_NORTH_EAST", "J_NORTH", "DEST_NORTH_WEST">>,
                      cfg.T3.fuel_percent, cfg.T3.capacity_used_percent, 60, "R_NENW_DIRECT") ]

----------------------------------------------------------------------------
(* simulation.py: Simulation._move_truck *)

speed == 150

RefuelWaitTicks == 5

FullTank == 20000

LowFuelThreshold == 4000

Abs(x) == IF x < 0 THEN -x ELSE x

Max(a, b) == IF a >= b THEN a ELSE b

RECURSIVE SqrtSearch(_, _, _)
SqrtSearch(n, lo, hi) ==
    IF hi - lo <= 1 THEN lo
    ELSE LET mid == (lo + hi) \div 2
         IN  IF mid * mid <= n THEN SqrtSearch(n, mid, hi) ELSE SqrtSearch(n, lo, mid)

\* floor(n ** 0.5) for 0 <= n < 2^30
ISqrt(n) == SqrtSearch(n, 0, 32768)

\* (d * speed) / dist, rounded toward zero
Scale(d, dist) == IF d >= 0 THEN (d * speed) \div dist ELSE -(((-d) * speed) \div dist)

Dist2(a, b) == (b[1] - a[1]) * (b[1] - a[1]) + (b[2] - a[2]) * (b[2] - a[2])

BlockedAlerts == {"Blocked route detected! Requesting AI reroute..."}

HeadingAlerts == {"Heading to fuel station...", "Heading to fuel station (Safety Override)"}

HasAlert(tr, kinds) == \E i \in 1..Len(tr.alerts) : tr.alerts[i] \in kinds

SnapRefuelsWhenLow(tr, target) ==
    LET t1 == [tr EXCEPT !.location = target,
                         !.route_coordinates = IF Len(@) > 1 THEN Tail(@) ELSE @]
        t2 == IF Len(t1.route_nodes) > 1
              THEN [t1 EXCEPT !.current_node = t1.route_nodes[2], !.route_nodes = Tail(@)]
              ELSE t1
        t3 == IF Len(t2.route_nodes) <= 1
              THEN [t2 EXCEPT !.status = "ARRIVED", !.eta_minutes = 0]
              ELSE t2
    IN  IF t3.current_node \in FuelNamed /\ t3.fuel_percent < LowFuelThreshold
        THEN [t3 EXCEPT !.status = "REFUELING", !.wait_time_ticks = RefuelWaitTicks,
                        !.alerts = <<"Refueling in progress...">>]
        ELSE t3

\* lines 153-175: the next coordinate is closer than one step
Snap(tr, target) ==
    LET t1 == [tr EXCEPT !.location = target,
                         !.route_coordinates = IF Len(@) > 1 THEN Tail(@) ELSE @]
        t2 == IF Len(t1.route_nodes) > 1
              THEN [t1 EXCEPT !.current_node = t1.route_nodes[2], !.route_nodes = Tail(@)]
              ELSE t1
        t3 == IF Len(t2.route_nodes) <= 1
              THEN [t2 EXCEPT !.status = "ARRIVED", !.eta_minutes = 0]
              ELSE t2
    IN  IF t3.current_node \in FuelNamed
        THEN [t3 EXCEPT !.status = "REFUELING", !.wait_time_ticks = RefuelWaitTicks,
                        !.alerts = <<"Refueling in progress...">>]
        ELSE t3

InterpolateAlongAxes(tr, target) ==
    [tr EXCEPT !.location = << IF target[1] > @[1] THEN @[1] + speed ELSE @[1] - speed,
                               IF target[2] > @[2] THEN @[2] + speed ELSE @[2] - speed >>]

\* lines 177-182
Interpolate(tr, target) ==
    LET dist == ISqrt(Dist2(tr.location, target))
    IN  [tr EXCEPT !.location = << tr.location[1] + Scale(target[1] - tr.location[1], dist),
                                   tr.location[2] + Scale(target[2] - tr.location[2], dist) >>]

\* lines 184-187: 0.5 * (1 + capacity_used_percent / 100), in 1/200 percent
Consumption(tr) == 100 + tr.capacity_used_percent

ConsumeFuelUnfloored(tr) == [tr EXCEPT !.fuel_percent = @ - Consumption(tr)]

ConsumeFuelAdds(tr) == [tr EXCEPT !.fuel_percent = Max(0, @ + Consumption(tr))]

ConsumeFuel(tr) == [tr EXCEPT !.fuel_percent = Max(0, @ - Consumption(tr))]

LowFuelRaisedWhateverAlert(tr) ==
    /\ tr.fuel_percent < LowFuelThreshold
    /\ tr.status \notin {"REROUTING", "REFUELING", "STOPPED_FOR_FUEL"}

\* lines 189-193
LowFuelRaised(tr) ==
    /\ tr.fuel_percent < LowFuelThreshold
    /\ tr.status \notin {"REROUTING", "REFUELING", "STOPPED_FOR_FUEL"}
    /\ ~HasAlert(tr, HeadingAlerts)

\* lines 123-133
RefuelStep(tr) ==
    IF tr.status = "REFUELING"
    THEN [tr EXCEPT !.fuel_percent = FullTank, !.status = "EN_ROUTE",
                    !.alerts = <<"Refueling complete. Tank size: 100%">>]
    ELSE tr

MoveStepChecksFirst(tr0) ==
    IF tr0.status = "REFUELING" /\ tr0.wait_time_ticks > 0
    THEN [truck |-> [tr0 EXCEPT !.wait_time_ticks = @ - 1], next |-> "return"]
    ELSE LET tr == RefuelStep(tr0)
         IN  IF Len(tr.route_nodes) < 2 \/ Len(tr.route_coordinates) <= 1
             THEN [truck |-> [tr EXCEPT !.status = "IDLE"], next |-> "return"]
             ELSE LET target == tr.route_coordinates[2]
                      moved  == IF Dist2(tr.location, target) < speed * speed
                                THEN Snap(tr, target)
                                ELSE Interpolate(tr, target)
                      fueled == ConsumeFuel(moved)
                  IN  [truck |-> fueled,
                       next  |-> IF LowFuelRaised(tr) THEN "low_fuel" ELSE "eta"]

\* _move_truck up to the point where it either returns, awaits the LOW_FUEL
\* decision (line 193) or goes on to the ETA countdown (line 195).
MoveStep(tr0) ==
    IF tr0.status = "REFUELING" /\ tr0.wait_time_ticks > 0
    THEN [truck |-> [tr0 EXCEPT !.wait_time_ticks = @ - 1], next |-> "return"]
    ELSE LET tr == RefuelStep(tr0)
         IN  IF Len(tr.route_nodes) < 2 \/ Len(tr.route_coordinates) <= 1
             THEN [truck |-> [tr EXCEPT !.status = "IDLE"], next |-> "return"]
             ELSE LET target == tr.route_coordinates[2]
                      moved  == IF Dist2(tr.location, target) < speed * speed
                                THEN Snap(tr, target)
                                ELSE Interpolate(tr, target)
                      fueled == ConsumeFuel(moved)
                  IN  [truck |-> fueled,
                       next  |-> IF LowFuelRaised(fueled) THEN "low_fuel" ELSE "eta"]

EtaStepKeeps(tr) == tr

\* lines 195-196
EtaStep(tr) == IF tr.eta_minutes > 0 THEN [tr EXCEPT !.eta_minutes = @ - 1] ELSE tr

----------------------------------------------------------------------------
(* agent_service.py: the Decision a request returns *)

\* selected_route_id = "" and new_route_nodes = <<>> stand for a key that is
\* absent from impact (both are falsy in the tests of lines 224 and 231).
Decision(action, rid, nodes, thoughts) ==
    [ raises |-> FALSE, action |-> action, selected_route_id |-> rid,
      new_route_nodes |-> nodes, thoughts |-> thoughts ]

\* The request ends in an exception instead of a Decision.
Raised ==
    [ raises |-> TRUE, action |-> "CONTINUE", selected_route_id |-> "",
      new_route_nodes |-> <<>>, thoughts |-> <<>> ]

\* AgentService.decide, lines 180-215: what the language model may answer.
LLMDecisions(tr) ==
    LET th == <<"agent">>
    IN  { Decision("CONTINUE", "", <<>>, th),
          Decision("WAIT", "", <<>>, th),
          Decision("REROUTE", "", <<>>, th),
          Decision("REROUTE", "R_UNKNOWN", <<>>, th),
          Decision("REROUTE", "", <<"FUEL_A", tr.destination_node>>, th),
          Decision("REROUTE", "", <<"FUEL_A">>, th),
          Decision("REROUTE", "", <<"FUEL_A", tr.current_node>>, th),
          Decision("REROUTE", "", <<tr.current_node>>, th),
          Decision("REROUTE", "", <<"J_CENTRAL", tr.destination_node>>, th) }
        \cup { Decision("REROUTE", r, <<>>, th) :
                 r \in {x \in RouteIds : ROUTES[x].destination = tr.destination_node} }

FallbackThoughts == <<"System: LLM Unavailable. Initiating Safety Protocol.">>

\* lines 238-242: the catalog ids that start with FUEL
Stations == DOMAIN LOCATIONS_COORDS \cap FuelNamed

\* min(stations.keys(), key = distance to the truck); ties go to the first key
ClosestStation(tr) ==
    CHOOSE s \in Stations :
        \A o \in Stations : Dist2(tr.location, LOCATIONS_COORDS[s])
                              <= Dist2(tr.location, LOCATIONS_COORDS[o])

\* lines 249-257: the first active route to the destination that is not the
\* truck's own, in catalog order
AltRoutes(tr, active) ==
    SelectSeq(RouteOrder, LAMBDA r : /\ active[r]
                                     /\ r # tr.active_route_id
                                     /\ ROUTES[r].destination = tr.destination_node)

\* AgentService._heuristic_fallback; min() of no station raises ValueError.
_heuristic_fallback(tr, event_type, active) ==
    IF event_type = "LOW_FUEL"
    THEN IF Stations = {}
         THEN Raised
         ELSE Decision("REROUTE", "", <<ClosestStation(tr), tr.destination_node>>,
                       Append(FallbackThoughts, "Heuristic: emergency stop"))
    ELSE IF event_type = "ROAD_CLOSED_BY_DISPATCH" /\ AltRoutes(tr, active) # <<>>
    THEN Decision("REROUTE", AltRoutes(tr, active)[1], <<>>,
                  Append(FallbackThoughts, "Heuristic: backup route"))
    ELSE Decision("CONTINUE", "", <<>>, FallbackThoughts)

\* AgentService.decide: the model's answer, or the fallback when the model is
\* muted or fails (lines 161-163 and 217-218).
decide(tr, event_type, active) ==
    LLMDecisions(tr) \cup {_heuristic_fallback(tr, event_type, active)}

----------------------------------------------------------------------------
(* simulation.py: Simulation._trigger_random_event, after decide returned *)

CustomRoute == "CUSTOM_AI_ROUTE"

MinutesPerNode == 10

RerouteImpactKeepsStatus(tr, d) ==
    IF d.new_route_nodes # <<>>
    THEN [tr EXCEPT !.route_nodes = <<tr.current_node>> \o d.new_route_nodes,
                    !.active_route_id = CustomRoute,
                    !.eta_minutes = Len(d.new_route_nodes) * MinutesPerNode]
    ELSE IF d.selected_route_id # "" /\ d.selected_route_id \in DOMAIN ROUTE_PATHS
    THEN [tr EXCEPT !.route_nodes = <<tr.current_node>> \o ROUTE_PATHS[d.selected_route_id],
                    !.active_route_id = d.selected_route_id,
                    !.eta_minutes = IF d.selected_route_id \in DOMAIN ROUTES
                                    THEN ROUTES[d.selected_route_id].base_time_min
                                    ELSE @]
    ELSE tr

RerouteImpactNoPrefix(tr, d) ==
    IF d.new_route_nodes # <<>>
    THEN [tr EXCEPT !.route_nodes = d.new_route_nodes,
                    !.status = "REROUTING",
                    !.active_route_id = CustomRoute,
                    !.eta_minutes = Len(d.new_route_nodes) * MinutesPerNode]
    ELSE IF d.selected_route_id # "" /\ d.selected_route_id \in DOMAIN ROUTE_PATHS
    THEN [tr EXCEPT !.route_nodes = <<tr.current_node>> \o ROUTE_PATHS[d.selected_route_id],
                    !.status = "REROUTING",
                    !.active_route_id = d.selected_route_id,
                    !.eta_minutes = IF d.selected_route_id \in DOMAIN ROUTES
                                    THEN ROUTES[d.selected_route_id].base_time_min
                                    ELSE @]
    ELSE tr

\* lines 224-240
RerouteImpact(tr, d) ==
    IF d.new_route_nodes # <<>>
    THEN [tr EXCEPT !.route_nodes = <<tr.current_node>> \o d.new_route_nodes,
                    !.status = "REROUTING",
                    !.active_route_id = CustomRoute,
                    !.eta_minutes = Len(d.new_route_nodes) * MinutesPerNode]
    ELSE IF d.selected_route_id # "" /\ d.selected_route_id \in DOMAIN ROUTE_PATHS
    THEN [tr EXCEPT !.route_nodes = <<tr.current_node>> \o ROUTE_PATHS[d.selected_route_id],
                    !.status = "REROUTING",
                    !.active_route_id = d.selected_route_id,
                    !.eta_minutes = IF d.selected_route_id \in DOMAIN ROUTES
                                    THEN ROUTES[d.selected_route_id].base_time_min
                                    ELSE @]
    ELSE tr

ApplyRerouteFromNode(tr, d, event_type) ==
    LET a == RerouteImpact(tr, d)
        b == [a EXCEPT !.route_coordinates = _resolve_route(a.route_nodes),
                       !.location = IF a.current_node \in DOMAIN LOCATIONS_COORDS
                                    THEN LOCATIONS_COORDS[a.current_node] ELSE @,
                       !.alerts = <<"Rerouted: reasoning">>]
    IN  IF event_type = "LOW_FUEL"
        THEN [b EXCEPT !.status = "REROUTING", !.alerts = <<"Heading to fuel station...">>]
        ELSE b

ApplyRerouteStaleCoordinates(tr, d, event_type) ==
    LET a == RerouteImpact(tr, d)
        b == [a EXCEPT !.alerts = <<"Rerouted: reasoning">>]
    IN  IF event_type = "LOW_FUEL"
        THEN [b EXCEPT !.status = "REROUTING", !.alerts = <<"Heading to fuel station...">>]
        ELSE b

\* lines 217-250
ApplyReroute(tr, d, event_type) ==
    LET a == RerouteImpact(tr, d)
        b == [a EXCEPT !.route_coordinates = _resolve_route(a.route_nodes),
                       !.alerts = <<"Rerouted: reasoning">>]
    IN  IF event_type = "LOW_FUEL"
        THEN [b EXCEPT !.status = "REROUTING", !.alerts = <<"Heading to fuel station...">>]
        ELSE b

SafetyOverrideAssignsFirst(tr, active) ==
    LET h == _heuristic_fallback(tr, "LOW_FUEL", active)
    IN  IF h.raises
        THEN [tr EXCEPT !.status = "REROUTING",
                        !.active_route_id = CustomRoute]
        ELSE IF h.new_route_nodes # <<>>
        THEN [tr EXCEPT !.route_nodes = <<tr.current_node>> \o h.new_route_nodes,
                        !.status = "REROUTING",
                        !.active_route_id = CustomRoute,
                        !.route_coordinates =
                            _resolve_route(<<tr.current_node>> \o h.new_route_nodes),
                        !.alerts = <<"Heading to fuel station (Safety Override)">>,
                        !.thoughts = Append(@, "Simulation: Overrode AI decision")]
        ELSE tr

\* lines 255-268: the fallback's exception leaves the try block before any
\* assignment of the override.
SafetyOverride(tr, active) ==
    LET h == _heuristic_fallback(tr, "LOW_FUEL", active)
    IN  IF h.raises
        THEN tr
        ELSE IF h.new_route_nodes # <<>>
        THEN [tr EXCEPT !.route_nodes = <<tr.current_node>> \o h.new_route_nodes,
                        !.status = "REROUTING",
                        !.active_route_id = CustomRoute,
                        !.route_coordinates =
                            _resolve_route(<<tr.current_node>> \o h.new_route_nodes),
                        !.alerts = <<"Heading to fuel station (Safety Override)">>,
                        !.thoughts = Append(@, "Simulation: Overrode AI decision")]
        ELSE tr

ApplyDecisionClearsAlerts(tr, d, event_type, active) ==
    IF d.raises
    THEN tr
    ELSE LET t1 == [tr EXCEPT !.thoughts = d.thoughts, !.alerts = <<>>]
             t2 == IF d.action = "REROUTE" THEN ApplyReroute(t1, d, event_type) ELSE t1
         IN  IF event_type = "LOW_FUEL" /\ d.action # "REROUTE"
             THEN SafetyOverride(t2, active)
             ELSE t2

\* lines 213-271: the truck after the request for event_type returned d
ApplyDecision(tr, d, event_type, active) ==
    IF d.raises
    THEN tr
    ELSE LET t1 == [tr EXCEPT !.thoughts = d.thoughts]
             t2 == IF d.action = "REROUTE" THEN ApplyReroute(t1, d, event_type) ELSE t1
         IN  IF event_type = "LOW_FUEL" /\ d.action # "REROUTE"
             THEN SafetyOverride(t2, active)
             ELSE t2

----------------------------------------------------------------------------
(* routing_engine.py: constants, inputs and results *)

\* 2.5 s between two requests to the provider
Spacing == 5

\* the circuit stays open for 300 s
CircuitWindow == 600

\* for attempt in range(2)
Attempts == 2

\* requests.get(url, timeout=5) of get_route
RouteTimeout == 10

\* requests.get(url, timeout=10) of get_distance_matrix
TableTimeout == 20

\* 0.0001 degree, in the routing client's unit of 0.000001 degree
Tolerance == 100

\* time.time() when the process starts: later than the epoch (the initial
\* _LAST_OSRM_CALL and _OSRM_CIRCUIT_RESET_TIME) by more than every window
ProcessStart == 2 * CircuitWindow

\* a catalog coordinate in units of 0.000001 degree
Micro(c) == <<c[1] * 100, c[2] * 100>>

PointA == Micro(LOCATIONS_COORDS["HUB_SOUTH"])

PointB == Micro(LOCATIONS_COORDS["DEST_WEST"])

\* prints the same five decimals as PointA
NearA == <<PointA[1] + 2, PointA[2]>>

\* closer to PointA than the tolerance, with other five decimals
CloseA == <<PointA[1] + 60, PointA[2] - 40>>

\* exactly the tolerance away from PointA
EdgeA == <<PointA[1] + Tolerance, PointA[2]>>

\* the (start, end) pairs given to get_route
RouteInputs == { <<PointA, PointB>>, <<NearA, PointB>>, <<PointA, CloseA>>, <<PointA, EdgeA>> }

\* the location lists given to get_distance_matrix
TableInputs == { <<PointA, PointB>>, <<PointB, PointA>> }

Callers == {1, 2}

IdenticalExact(start, end) == start = end

\* line 57
Identical(start, end) ==
    Abs(start[1] - end[1]) < Tolerance /\ Abs(start[2] - end[2]) < Tolerance

\* f"{x:.5f}": x rounded to five decimals
Round5(x) == ((x + 5) \div 10) * 10

\* line 66
cache_key(start, end) ==
    <<Round5(start[1]), Round5(start[2]), Round5(end[1]), Round5(end[2])>>

LocationLess(a, b) == a[1] < b[1] \/ (a[1] = b[1] /\ a[2] < b[2])

\* line 115: tuple(sorted(locations))
table_key(locations) == SortSeq(locations, LocationLess)

NoResult == [src |-> "none"]

\* lines 58-63; distance in metres, duration in seconds
ZeroResult(start) ==
    [src |-> "identical", distance |-> 0, duration |-> 0, coordinates |-> <<start>>]

\* what the provider answers for a route (the catalog's highway: 15 km, 30 min)
ProviderRoute == [distance |-> 15000, duration |-> 1800]

\* lines 85-91
RouteResult(start, end) ==
    [src |-> "provider", distance |-> ProviderRoute.distance,
     duration |-> ProviderRoute.duration, coordinates |-> <<start, end>>]

\* lines 98-110: 111 km per degree of latitude, 0.9 * 111 per degree of
\* longitude, 0.8 km per minute
StraightLine(start, end) ==
    LET dist_lat == (Abs(end[1] - start[1]) * 111) \div 1000
        dist_lng == (Abs(end[2] - start[2]) * 111 * 9) \div 10000
        direct   == ISqrt(dist_lat * dist_lat + dist_lng * dist_lng)
    IN  [src |-> "fallback", distance |-> direct, duration |-> (direct * 3) \div 40,
         coordinates |-> <<start, end>>]

\* lines 131-133: data["durations"], entry [i][j] is the provider's duration of
\* the leg from the i-th to the j-th location of the request
TableResult(locations) ==
    [src |-> "provider",
     matrix |-> [i \in 1..Len(locations) |->
                   [j \in 1..Len(locations) |-> <<locations[i], locations[j]>>]]]

\* lines 143-144: degrees * 111000 / 13, in seconds
Euclid(l1, l2) ==
    LET dlat == Abs(l1[1] - l2[1]) \div 10
        dlng == Abs(l1[2] - l2[2]) \div 10
    IN  (ISqrt(dlat * dlat + dlng * dlng) * 111) \div 1300

\* lines 136-145
FallbackMatrix(locations) ==
    [src |-> "fallback",
     matrix |-> [i \in 1..Len(locations) |->
                   [j \in 1..Len(locations) |->
                      IF i = j THEN 0 ELSE Euclid(locations[i], locations[j])]]]

StoreNothing(cache, key, result) == cache

\* _ROUTE_CACHE[cache_key] = result
Store(cache, key, result) ==
    [k \in DOMAIN cache \cup {key} |-> IF k = key THEN result ELSE cache[k]]

----------------------------------------------------------------------------
(* routing_engine.py: _osrm_cooldown, get_route, get_distance_matrix *)

\* A coroutine inside the client.  pc is where it stands: "cooldown" at the
\* head of _osrm_cooldown, "sleep" in asyncio.sleep, "request" in requests.get.
\* n counts the requests this call has sent; window tells whether the call
\* was issued within 300 s after a 429 answer ("inside"), as the first one
\* after that ("after"), or neither.
IdleCaller ==
    [ pc |-> "idle", op |-> "none", arg |-> <<>>, attempt |-> 0, wake_at |-> 0,
      result |-> NoResult, n |-> 0, window |-> "none" ]

NoTime == 0 - 1

\* requests.get is a blocking call: from its call until it suspends in
\* asyncio.sleep or returns, a coroutine holds the event loop.
LoopFree == \A c \in Callers : callers[c].pc \notin {"cooldown", "request"}

Returned(k, r) == [k EXCEPT !.pc = "done", !.result = r]

\* where the call stands against the last 429 answer the provider gave
Window ==
    IF provider.last429 = NoTime THEN "none"
    ELSE IF now < provider.last429 + CircuitWindow THEN "inside"
    ELSE IF circuit_open THEN "after"
    ELSE "none"

\* a new call runs in the first coroutine that is not inside a call
Free(c) ==
    /\ callers[c].pc \in {"idle", "done"}
    /\ \A o \in Callers : callers[o].pc \in {"idle", "done"} => o >= c

CircuitBlocksLate == circuit_open /\ now > circuit_reset_time

\* lines 25-27
CircuitBlocks == circuit_open /\ now < circuit_reset_time

NextAttemptOnceMore(k) ==
    IF k.attempt + 1 <= Attempts
    THEN [k EXCEPT !.pc = "cooldown", !.attempt = @ + 1]
    ELSE Returned(k, StraightLine(k.arg[1], k.arg[2]))

\* line 75, the for loop moves on: the next attempt, or the fallback of line 98
NextAttempt(k) ==
    IF k.attempt + 1 < Attempts
    THEN [k EXCEPT !.pc = "cooldown", !.attempt = @ + 1]
    ELSE Returned(k, StraightLine(k.arg[1], k.arg[2]))

Uncaught(k) == [k EXCEPT !.pc = "raised"]

\* lines 94-96 and 134-145: the except clause that catches what the try raised
Caught(k) ==
    IF k.op = "route" THEN NextAttempt(k) ELSE Returned(k, FallbackMatrix(k.arg))

CacheAfterFailureStored(k) ==
    IF k.pc = "done" /\ k.op = "route"
    THEN Store(route_cache, cache_key(k.arg[1], k.arg[2]), k.result)
    ELSE route_cache

\* lines 98-110: the fallback is returned, nothing is written to _ROUTE_CACHE
CacheAfterFailure(k) == route_cache

RouteVarsInit ==
    /\ now = ProcessStart
    /\ route_cache = <<>>
    /\ table_cache = <<>>
    /\ last_osrm_call = 0
    /\ circuit_open = FALSE
    /\ circuit_reset_time = 0
    /\ callers = [c \in Callers |-> IdleCaller]
    /\ provider = [last |-> NoTime, last429 |-> NoTime, answered |-> {}]
    /\ nCalls = 0

\* lines 56-68: a call of get_route up to its first attempt
get_route(c, start, end) ==
    /\ LoopFree
    /\ Free(c)
    /\ nCalls < MaxCalls
    /\ nCalls' = nCalls + 1
    /\ LET k == [IdleCaller EXCEPT !.op = "route", !.arg = <<start, end>>]
       IN  callers' = [callers EXCEPT ![c] =
               IF Identical(start, end)
               THEN Returned(k, ZeroResult(start))
               ELSE IF cache_key(start, end) \in DOMAIN route_cache
               THEN Returned(k, route_cache[cache_key(start, end)])
               ELSE [k EXCEPT !.pc = "cooldown", !.window = Window]]
    /\ UNCHANGED <<now, route_cache, table_cache, last_osrm_call, circuit_open,
                   circuit_reset_time, provider>>
    /\ UNCHANGED simVars

\* lines 115-120: a call of get_distance_matrix up to its attempt
get_distance_matrix(c, locations) ==
    /\ LoopFree
    /\ Free(c)
    /\ nCalls < MaxCalls
    /\ nCalls' = nCalls + 1
    /\ LET k == [IdleCaller EXCEPT !.op = "table", !.arg = locations]
       IN  callers' = [callers EXCEPT ![c] =
               IF table_key(locations) \in DOMAIN table_cache
               THEN Returned(k, table_cache[table_key(locations)])
               ELSE [k EXCEPT !.pc = "cooldown", !.window = Window]]
    /\ UNCHANGED <<now, route_cache, table_cache, last_osrm_call, circuit_open,
                   circuit_reset_time, provider>>
    /\ UNCHANGED simVars

\* lines 20-36, up to the sleep or through to line 36
_osrm_cooldown(c) ==
    /\ callers[c].pc = "cooldown"
    /\ IF CircuitBlocks
       THEN /\ callers' = [callers EXCEPT ![c] = Caught(@)]
            /\ route_cache' = CacheAfterFailure(Caught(callers[c]))
            /\ UNCHANGED <<circuit_open, last_osrm_call>>
       ELSE /\ circuit_open' = FALSE
            /\ IF now - last_osrm_call < Spacing
               THEN /\ callers' = [callers EXCEPT ![c].pc = "sleep",
                                       ![c].wake_at = now + (Spacing - (now - last_osrm_call))]
                    /\ UNCHANGED last_osrm_call
               ELSE /\ callers' = [callers EXCEPT ![c].pc = "request"]
                    /\ last_osrm_call' = now
            /\ UNCHANGED route_cache
    /\ UNCHANGED <<now, table_cache, circuit_reset_time, provider, nCalls>>
    /\ UNCHANGED simVars

\* lines 35-36: asyncio.sleep is over, the coroutine is scheduled again
Wake(c) ==
    /\ LoopFree
    /\ callers[c].pc = "sleep"
    /\ now >= callers[c].wake_at
    /\ callers' = [callers EXCEPT ![c].pc = "request", ![c].wake_at = 0]
    /\ last_osrm_call' = now
    /\ UNCHANGED <<now, route_cache, table_cache, circuit_open, circuit_reset_time,
                   provider, nCalls>>
    /\ UNCHANGED simVars

\* what requests.get and the checks of lines 79-84 / 128-132 can meet
Responses == {"ok", "not_ok", "rate_limited", "http_error", "network_error", "timeout"}

\* how long requests.get holds the event loop: 0.5 s for an answer, the
\* timeout when none comes
ResponseTime == 1

Latency(op, kind) ==
    IF kind = "timeout"
    THEN {IF op = "route" THEN RouteTimeout ELSE TableTimeout}
    ELSE {ResponseTime}

\* lines 78-96 and 127-145: the request is sent at now and answered d later
Respond(c, kind, d) ==
    /\ callers[c].pc = "request"
    /\ d \in Latency(callers[c].op, kind)
    /\ now' = now + d
    /\ provider' = [ last     |-> now,
                     last429  |-> IF kind = "rate_limited" THEN now + d ELSE provider.last429,
                     answered |-> IF kind = "ok" /\ callers[c].op = "route"
                                  THEN provider.answered
                                         \cup {cache_key(callers[c].arg[1], callers[c].arg[2])}
                                  ELSE provider.answered ]
    /\ IF kind = "rate_limited"
       THEN circuit_open' = TRUE /\ circuit_reset_time' = now + d + CircuitWindow
       ELSE UNCHANGED <<circuit_open, circuit_reset_time>>
    /\ LET k == [callers[c] EXCEPT !.n = @ + 1]
       IN  IF kind = "ok"
           THEN IF k.op = "route"
                THEN LET r == RouteResult(k.arg[1], k.arg[2])
                     IN  /\ route_cache' = Store(route_cache, cache_key(k.arg[1], k.arg[2]), r)
                         /\ callers' = [callers EXCEPT ![c] = Returned(k, r)]
                         /\ UNCHANGED table_cache
                ELSE LET r == TableResult(k.arg)
                     IN  /\ table_cache' = Store(table_cache, table_key(k.arg), r)
                         /\ callers' = [callers EXCEPT ![c] = Returned(k, r)]
                         /\ UNCHANGED route_cache
           ELSE LET f == IF kind = "not_ok" /\ k.op = "route" THEN NextAttempt(k) ELSE Caught(k)
                IN  /\ callers' = [callers EXCEPT ![c] = f]
                    /\ route_cache' = CacheAfterFailure(f)
                    /\ UNCHANGED table_cache
    /\ UNCHANGED <<last_osrm_call, nCalls>>
    /\ UNCHANGED simVars

\* the instants at which a comparison of the client changes its outcome
Instants ==
    {last_osrm_call + 1, last_osrm_call + Spacing,
     circuit_reset_time - 1, circuit_reset_time}
    \cup {callers[c].wake_at : c \in {x \in Callers : callers[x].pc = "sleep"}}

\* time passes while the event loop is idle; a due sleeper runs first
TimePasses ==
    /\ LoopFree
    /\ \E t \in Instants :
         /\ t > now
         /\ \A c \in Callers : callers[c].pc = "sleep" => t <= callers[c].wake_at
         /\ now' = t
    /\ UNCHANGED <<route_cache, table_cache, last_osrm_call, circuit_open,
                   circuit_reset_time, callers, provider, nCalls>>
    /\ UNCHANGED simVars

RouteInit ==
    /\ RouteVarsInit
    /\ trucks = _init_trucks(DefaultConfig)
    /\ route_active = [r \in RouteIds |-> TRUE]
    /\ current_time = 0
    /\ tick = [i |-> 0, awaiting |-> "none", ev |-> "", orphan |-> FALSE]
    /\ manual = {}
    /\ nInputs = 0
    /\ held = [t \in TruckIds |-> <<"", FALSE>>]
    /\ drawn = {}
    /\ initial_config = DefaultConfig
    /\ simulation_task = "none"
    /\ loops = 0
    /\ orphans = {}
    /\ response = <<"", "none">>

RouteNext ==
    \/ \E c \in Callers, p \in RouteInputs : get_route(c, p[1], p[2])
    \/ \E c \in Callers, l \in TableInputs : get_distance_matrix(c, l)
    \/ \E c \in Callers : _osrm_cooldown(c)
    \/ \E c \in Callers : Wake(c)
    \/ \E c \in Callers, kind \in Responses, d \in {ResponseTime, RouteTimeout, TableTimeout} :
          Respond(c, kind, d)
    \/ TimePasses

RouteSpec == RouteInit /\ [][RouteNext]_vars

----------------------------------------------------------------------------
(* simulation.py: Simulation.tick, Simulation.trigger_event; main.py *)

\* random.choice of line 211
RandomEvents == {"TRAFFIC_JAM", "NEW_LOAD_OFFER"}

\* event types an operator posts to /api/event ("ROADBLOCK" is the default)
ManualEvents == {"LOW_FUEL", "ROADBLOCK"}

\* the truck an operator posts events for (the random draw of a tick raises
\* events for every truck)
OperatorTrucks == {"T1"}

\* a truck id an operator posts that Simulation.trucks does not hold
UnknownTrucks == {"T9"}

\* the routes an operator toggles: the first truck's route and the route the
\* fallback would switch it to
OperatorRoutes == {"R_SW_HWY", "R_SW_CITY"}

\* initial_config values given to set_initial_config before the run
FuelConfigs == {100, 18}

\* orphan: the TruckState the current turn works on has been replaced in
\* Simulation.trucks by _init_trucks while the turn was suspended
Running(i) == [i |-> i, awaiting |-> "none", ev |-> "", orphan |-> FALSE]

Awaiting(i, kind, ev, orphan) == [i |-> i, awaiting |-> kind, ev |-> ev, orphan |-> orphan]

\* The tick coroutine holds the event loop unless it sleeps between two ticks
\* (i = 0) or is suspended in a decide call.
Suspended == tick.i = 0 \/ tick.awaiting # "none"

Cur == TruckOrder[tick.i]

\* next truck of the for loop of line 105, or the end of the tick
Advance == IF tick.i = Len(TruckOrder) THEN Running(0) ELSE Running(tick.i + 1)

BlockedInverted(tr) == tr.active_route_id \in RouteIds /\ route_active[tr.active_route_id]

NotHeld == [t \in TruckIds |-> <<"", FALSE>>]

\* the tick raised ROAD_CLOSED for truck t (line 113) and held it
Ask(t) == [held EXCEPT ![t] = <<trucks[t].active_route_id, TRUE>>]

\* the tick held truck t on its route without a request (line 114)
Hold(t) ==
    [held EXCEPT ![t] =
        <<trucks[t].active_route_id,
          IF held[t][1] = trucks[t].active_route_id THEN held[t][2] ELSE FALSE>>]

\* the tick did not hold truck t
Release(t) == [held EXCEPT ![t] = <<"", FALSE>>]

\* line 108
Blocked(tr) == tr.active_route_id \in RouteIds /\ ~route_active[tr.active_route_id]

Moving(tr) == tr.status \in {"EN_ROUTE", "REROUTING"}

\* lines 118-120: the random draw that ends a truck's turn
RandomDraw ==
    /\ drawn' = drawn \cup {Cur}
    /\ \/ /\ tick' = Advance
          /\ UNCHANGED nInputs
       \/ /\ nInputs < MaxInputs
          /\ \E ev \in RandomEvents : tick' = Awaiting(tick.i, "random", ev, tick.orphan)
          /\ nInputs' = nInputs + 1

is_task_activeNever == FALSE

\* main.py lines 117 and 155: simulation_task and not simulation_task.done()
is_task_active == simulation_task = "active"

\* main.py lines 119-123 and 156-159: the loop is created only when none is alive
EnsureLoop ==
    IF ~is_task_active
    THEN /\ simulation_task' = "active"
         /\ loops' = loops + 1
    ELSE UNCHANGED <<simulation_task, loops>>

\* main.py lines 176-180: the reply of manual_event
Reply(t, success) == <<t, IF success THEN "success" ELSE "not_found">>

SimInit ==
    /\ \E f \in FuelConfigs :
         /\ initial_config = [DefaultConfig EXCEPT !.T1.fuel_percent = f]
         /\ trucks = _init_trucks(initial_config)
    /\ route_active = [r \in RouteIds |-> TRUE]
    /\ current_time = 0
    /\ tick = Running(0)
    /\ manual = {}
    /\ nInputs = 0
    /\ held = NotHeld
    /\ drawn = {}
    /\ simulation_task = "none"
    /\ loops = 0
    /\ orphans = {}
    /\ response = <<"", "none">>
    /\ RouteVarsInit

\* GET /api/state: starts the loop when none is alive (no await before create_task)
get_state ==
    /\ Suspended
    /\ EnsureLoop
    /\ UNCHANGED <<trucks, route_active, current_time, tick, manual, nInputs>>
    /\ UNCHANGED <<initial_config, orphans, response, routeVars>>
    /\ UNCHANGED held
    /\ UNCHANGED drawn

\* POST /api/start: new TruckState objects, clock back to 08:00, every route
\* open, loop ensured; the requests in flight keep the objects they were given
start_simulation ==
    /\ Suspended
    /\ nInputs < MaxInputs
    /\ trucks' = _init_trucks(initial_config)
    /\ current_time' = 0
    /\ route_active' = [r \in RouteIds |-> TRUE]
    /\ tick' = IF tick.awaiting # "none" THEN [tick EXCEPT !.orphan = TRUE] ELSE tick
    /\ orphans' = orphans \cup manual
    /\ manual' = {}
    /\ EnsureLoop
    /\ nInputs' = nInputs + 1
    /\ UNCHANGED <<initial_config, response, routeVars>>
    /\ held' = NotHeld
    /\ UNCHANGED drawn

\* simulation_loop wakes up and tick() advances the clock (line 102)
TickStart ==
    /\ is_task_active
    /\ tick = Running(0)
    /\ current_time < MaxTicks
    /\ current_time' = current_time + 1
    /\ tick' = Running(1)
    /\ UNCHANGED <<trucks, route_active, manual, nInputs>>
    /\ UNCHANGED <<appVars, routeVars>>
    /\ UNCHANGED held
    /\ drawn' = {}

\* lines 108-113: first tick on a closed route, the ROAD_CLOSED request starts
TickBlockedRaise ==
    /\ tick.i > 0 /\ tick.awaiting = "none"
    /\ Moving(trucks[Cur]) /\ Blocked(trucks[Cur])
    /\ ~HasAlert(trucks[Cur], BlockedAlerts)
    /\ trucks' = [trucks EXCEPT ![Cur].alerts =
                      <<"Blocked route detected! Requesting AI reroute...">>]
    /\ tick' = Awaiting(tick.i, "closed", "ROAD_CLOSED_BY_DISPATCH", FALSE)
    /\ UNCHANGED <<route_active, current_time, manual, nInputs>>
    /\ UNCHANGED <<appVars, routeVars>>
    /\ held' = Ask(Cur)
    /\ UNCHANGED drawn

\* lines 108-114: the alert is already there, continue
TickBlockedHold ==
    /\ tick.i > 0 /\ tick.awaiting = "none"
    /\ Moving(trucks[Cur]) /\ Blocked(trucks[Cur])
    /\ HasAlert(trucks[Cur], BlockedAlerts)
    /\ tick' = Advance
    /\ UNCHANGED <<trucks, route_active, current_time, manual, nInputs>>
    /\ UNCHANGED <<appVars, routeVars>>
    /\ held' = Hold(Cur)
    /\ UNCHANGED drawn

\* line 116: _move_truck, up to its LOW_FUEL request or through to the draw
TickMove ==
    /\ tick.i > 0 /\ tick.awaiting = "none"
    /\ Moving(trucks[Cur]) /\ ~Blocked(trucks[Cur])
    /\ LET m == MoveStep(trucks[Cur])
       IN  IF m.next = "low_fuel"
           THEN /\ trucks' = [trucks EXCEPT ![Cur] = m.truck]
                /\ tick' = Awaiting(tick.i, "low_fuel", "LOW_FUEL", FALSE)
                /\ UNCHANGED <<nInputs, drawn>>
           ELSE /\ trucks' = [trucks EXCEPT ![Cur] =
                                 IF m.next = "eta" THEN EtaStep(m.truck) ELSE m.truck]
                /\ RandomDraw
    /\ UNCHANGED <<route_active, current_time, manual>>
    /\ UNCHANGED <<appVars, routeVars>>
    /\ held' = Release(Cur)

\* line 106 is false: only the random draw
TickSkip ==
    /\ tick.i > 0 /\ tick.awaiting = "none"
    /\ ~Moving(trucks[Cur])
    /\ RandomDraw
    /\ UNCHANGED <<trucks, route_active, current_time, manual>>
    /\ UNCHANGED <<appVars, routeVars>>
    /\ held' = Release(Cur)

\* The decide call of the tick coroutine returns; the rest of
\* _trigger_random_event runs, then the tick goes on to its next await.
TickDecideReturn ==
    /\ tick.awaiting # "none"
    /\ IF tick.orphan
       THEN /\ trucks' = trucks
            /\ IF tick.awaiting = "low_fuel"
               THEN RandomDraw
               ELSE tick' = Advance /\ UNCHANGED <<nInputs, drawn>>
       ELSE \E d \in decide(trucks[Cur], tick.ev, route_active) :
              LET tr == ApplyDecision(trucks[Cur], d, tick.ev, route_active)
              IN  IF tick.awaiting = "low_fuel"
                  THEN /\ trucks' = [trucks EXCEPT ![Cur] = EtaStep(tr)]
                       /\ RandomDraw
                  ELSE /\ trucks' = [trucks EXCEPT ![Cur] = tr]
                       /\ tick' = Advance
                       /\ UNCHANGED <<nInputs, drawn>>
    /\ UNCHANGED <<route_active, current_time, manual>>
    /\ UNCHANGED <<appVars, routeVars>>
    /\ UNCHANGED held

TruckFoundAlways(t) == TRUE

\* trigger_event line 203
TruckFound(t) == t \in DOMAIN trucks

\* POST /api/event -> trigger_event -> _trigger_random_event -> await decide;
\* an unknown truck_id is answered at once (trigger_event line 206)
ManualEvent(t, ev) ==
    /\ Suspended
    /\ nInputs < MaxInputs
    /\ <<t, ev>> \notin manual
    /\ IF TruckFound(t)
       THEN /\ manual' = manual \cup {<<t, ev>>}
            /\ UNCHANGED response
       ELSE /\ response' = Reply(t, FALSE)
            /\ UNCHANGED manual
    /\ nInputs' = nInputs + 1
    /\ UNCHANGED <<trucks, route_active, current_time, tick>>
    /\ UNCHANGED <<initial_config, simulation_task, loops, orphans, routeVars>>
    /\ UNCHANGED held
    /\ UNCHANGED drawn

\* the decide call of a manual event returns; trigger_event returns True
\* whatever _trigger_random_event did (lines 204-205)
ManualReturn(t, ev) ==
    /\ Suspended
    /\ IF <<t, ev>> \in manual
       THEN /\ \E d \in decide(trucks[t], ev, route_active) :
                 trucks' = [trucks EXCEPT ![t] =
                               ApplyDecision(trucks[t], d, ev, route_active)]
            /\ manual' = manual \ {<<t, ev>>}
            /\ UNCHANGED orphans
       ELSE /\ <<t, ev>> \in orphans
            /\ orphans' = orphans \ {<<t, ev>>}
            /\ UNCHANGED <<trucks, manual>>
    /\ response' = Reply(t, TRUE)
    /\ UNCHANGED <<route_active, current_time, tick, nInputs>>
    /\ UNCHANGED <<initial_config, simulation_task, loops, routeVars>>
    /\ UNCHANGED held
    /\ UNCHANGED drawn

\* main.py toggle_route, lines 105-109
Toggle(r) ==
    /\ Suspended
    /\ route_active' = [route_active EXCEPT ![r] = ~@]
    /\ held' = [t \in TruckIds |-> IF held[t][1] = r THEN <<r, FALSE>> ELSE held[t]]
    /\ UNCHANGED <<trucks, current_time, tick, manual>>
    /\ UNCHANGED <<appVars, routeVars>>
    /\ UNCHANGED drawn

\* POST /api/routes/{route_id}/toggle, counted among the operator's requests
toggle_route(r) ==
    /\ nInputs < MaxInputs
    /\ nInputs' = nInputs + 1
    /\ Toggle(r)

\* POST /api/routes/{route_id}/toggle of the dispatcher, who closes and reopens
\* routes as often as they like
DispatcherToggle(r) ==
    /\ Toggle(r)
    /\ UNCHANGED nInputs

SimNext ==
    \/ TickStart
    \/ TickBlockedRaise
    \/ TickBlockedHold
    \/ TickMove
    \/ TickSkip
    \/ TickDecideReturn
    \/ get_state
    \/ start_simulation
    \/ \E t \in OperatorTrucks \cup UnknownTrucks, ev \in ManualEvents : ManualEvent(t, ev)
    \/ \E t \in OperatorTrucks, ev \in ManualEvents : ManualReturn(t, ev)
    \/ \E r \in OperatorRoutes : toggle_route(r)

Spec == SimInit /\ [][SimNext]_vars

\* the routes the dispatcher closes and reopens
DispatcherRoutes == {"R_SW_HWY"}

\* The simulation under a dispatcher who only closes and reopens routes.
ClosureNext ==
    \/ TickStart
    \/ TickBlockedRaise
    \/ TickBlockedHold
    \/ TickMove
    \/ TickSkip
    \/ TickDecideReturn
    \/ get_state
    \/ \E r \in DispatcherRoutes : DispatcherToggle(r)

\* Simulation.__init__ with the default initial_config; every random draw
\* misses
ClosureInit ==
    /\ initial_config = DefaultConfig
    /\ trucks = _init_trucks(initial_config)
    /\ route_active = [r \in RouteIds |-> TRUE]
    /\ current_time = 0
    /\ tick = Running(0)
    /\ manual = {}
    /\ nInputs = MaxInputs
    /\ held = NotHeld
    /\ drawn = {}
    /\ simulation_task = "none"
    /\ loops = 0
    /\ orphans = {}
    /\ response = <<"", "none">>
    /\ RouteVarsInit

ClosureSpec == ClosureInit /\ [][ClosureNext]_vars

\* the ticks of a whole trip
TripTicks == 30

\* simulation_loop wakes up and tick() advances the clock (line 102), for as
\* many ticks as a trip takes
TripTickStart ==
    /\ is_task_active
    /\ tick = Running(0)
    /\ current_time < TripTicks
    /\ current_time' = current_time + 1
    /\ tick' = Running(1)
    /\ UNCHANGED <<trucks, route_active, manual, nInputs>>
    /\ UNCHANGED <<appVars, routeVars>>
    /\ UNCHANGED held
    /\ drawn' = {}

\* The simulation left to itself: no operator, every random draw misses.
TripNext ==
    \/ TripTickStart
    \/ TickMove
    \/ TickSkip
    \/ get_state

\* Simulation.__init__ with the default initial_config
TripInit ==
    /\ initial_config = DefaultConfig
    /\ trucks = _init_trucks(initial_config)
    /\ route_active = [r \in RouteIds |-> TRUE]
    /\ current_time = 0
    /\ tick = Running(0)
    /\ manual = {}
    /\ nInputs = MaxInputs
    /\ held = NotHeld
    /\ drawn = {}
    /\ simulation_task = "none"
    /\ loops = 0
    /\ orphans = {}
    /\ response = <<"", "none">>
    /\ RouteVarsInit

\* simulation_loop: once created, the task calls tick() every two seconds, and
\* a tick without requests runs through all trucks without suspending
TripSpec ==
    /\ TripInit
    /\ [][TripNext]_vars
    /\ WF_vars(TripTickStart)
    /\ WF_vars(TickMove)
    /\ WF_vars(TickSkip)

----------------------------------------------------------------------------
(* Properties of the simulation, checked under Spec *)

\* C1: in every reachable state every truck has exactly as many route
\* coordinates as route nodes, also after a REROUTE whose node list names an
\* id that is not in the catalog (FUEL_A).
C1_RouteAligned ==
    \A t \in TruckIds : Len(trucks[t].route_coordinates) = Len(trucks[t].route_nodes)

\* the step is a start/reset request: the fleet is built anew from
\* initial_config and the clock is back at its start
StartReset ==
    /\ nInputs' = nInputs + 1
    /\ current_time' = 0
    /\ trucks' = _init_trucks(initial_config)

\* C2: no step of a tick and no application of a Decision raises a truck's
\* fuel, except the step that takes the truck from REFUELING to EN_ROUTE,
\* which sets the fuel to exactly 100 percent.
C2_FuelNeverRises ==
    [][\/ StartReset
       \/ \A t \in TruckIds :
            \/ trucks'[t].fuel_percent <= trucks[t].fuel_percent
            \/ /\ trucks[t].status = "REFUELING"
               /\ trucks'[t].status = "EN_ROUTE"
               /\ trucks'[t].fuel_percent = FullTank]_vars

\* two ticks are over, a Decision has been applied to a truck and the truck
\* has burnt fuel on both ticks
C2_Burnt ==
    \E t \in TruckIds :
        /\ current_time >= 2
        /\ tick.i = 0
        /\ trucks[t].thoughts # <<>>
        /\ trucks[t].fuel_percent
             = DefaultConfig[t].fuel_percent * 200
                 - current_time * (100 + trucks[t].capacity_used_percent)

OnClosedRoute(tr) ==
    tr.active_route_id \in DOMAIN ROUTES /\ ~route_active[tr.active_route_id]

\* C3: a truck's location changes only in the truck's own turn of a tick, and
\* only if the route it is on is not flagged inactive at that turn; so on a
\* tick that processes an EN_ROUTE or REROUTING truck on a closed route the
\* location stays what it was, with or without the dedupe alert and whatever
\* Decision the ROAD_CLOSED request returns.
C3_HeldOnClosedRoute ==
    [][\/ StartReset
       \/ \A t \in TruckIds :
            trucks'[t].location # trucks[t].location
              => /\ tick.i > 0
                 /\ TruckOrder[tick.i] = t
                 /\ tick.awaiting = "none"
                 /\ ~OnClosedRoute(trucks[t])]_vars

\* after two ticks the first truck, on its closed route and still due to be
\* processed, stands at its hub while the second truck has moved on
C3_Held ==
    /\ current_time >= 2
    /\ tick.i = 0
    /\ trucks["T1"].status \in {"EN_ROUTE", "REROUTING"}
    /\ OnClosedRoute(trucks["T1"])
    /\ trucks["T1"].alerts # <<>>
    /\ trucks["T1"].location = LOCATIONS_COORDS["HUB_SOUTH"]
    /\ trucks["T2"].location # LOCATIONS_COORDS["HUB_EAST"]

----------------------------------------------------------------------------
(* Properties of event handling, checked under Spec.  A request is pending
   from the await of decide to its return; the properties speak about every
   Decision the pending request may return. *)

\* the requests whose decide call has not returned: <<truck, event type>>
Pending ==
    (IF tick.awaiting # "none" /\ ~tick.orphan
     THEN {<<TruckOrder[tick.i], tick.ev>>} ELSE {})
        \cup manual

\* the Decisions the pending request p may return
Answers(p) == decide(trucks[p[1]], p[2], route_active)

\* the truck of the pending request p once the handler has applied d
Handled(p, d) == ApplyDecision(trucks[p[1]], d, p[2], route_active)

\* the coordinates of the ids of a node list that the catalog knows, in order
Resolved(nodes) ==
    LET known == SelectSeq(nodes, LAMBDA n : n \in DOMAIN LOCATIONS_COORDS)
    IN  [i \in 1..Len(known) |-> LOCATIONS_COORDS[known[i]]]

IsFuelStation(n) == n \in {"FUEL_A", "FUEL_B"}

\* C11: when a LOW_FUEL event has been handled and the Decision was not a
\* REROUTE, the safety override has rerouted the truck: status REROUTING, the
\* ad-hoc route id, route_nodes = [current_node, s, destination_node] for a
\* fuel station s of the catalog, and the coordinates resolved again.
C11_OverrideReroutes ==
    \A p \in Pending : \A d \in Answers(p) :
        (p[2] = "LOW_FUEL" /\ ~d.raises /\ d.action # "REROUTE")
          => LET tr == trucks[p[1]]
                 a  == Handled(p, d)
             IN  /\ a.status = "REROUTING"
                 /\ a.active_route_id = "CUSTOM_AI_ROUTE"
                 /\ \E s \in DOMAIN LOCATIONS_COORDS :
                      /\ IsFuelStation(s)
                      /\ a.route_nodes = <<tr.current_node, s, tr.destination_node>>
                 /\ a.route_coordinates = Resolved(a.route_nodes)

\* C12: after a LOW_FUEL event has been handled, whatever the Decision was,
\* the truck's remaining route_nodes contain a fuel-station node.
C12_RouteHasStation ==
    \A p \in Pending : \A d \in Answers(p) :
        (p[2] = "LOW_FUEL" /\ ~d.raises)
          => LET a == Handled(p, d)
             IN  \E i \in 1..Len(a.route_nodes) : IsFuelStation(a.route_nodes[i])

\* C13: a movement step that snaps a truck onto a fuel-station node leaves
\* the truck REFUELING with wait_time_ticks = 5, whatever its fuel level; the
\* same holds of the snap when the station is the last waypoint of the route
\* (the refuel check comes after the arrival check and wins).
C13_SnapOntoStationRefuels ==
    [][\A t \in TruckIds :
         /\ (trucks'[t].current_node # trucks[t].current_node
               /\ IsFuelStation(trucks'[t].current_node))
              => /\ trucks'[t].status = "REFUELING"
                 /\ trucks'[t].wait_time_ticks = 5
         /\ LET last == [trucks[t] EXCEPT
                            !.route_nodes = <<trucks[t].current_node, "FUEL_B">>]
                 s    == Snap(last, LOCATIONS_COORDS["J_NORTH"])
             IN  /\ s.current_node = "FUEL_B"
                 /\ s.route_nodes = <<"FUEL_B">>
                 /\ s.status = "REFUELING"
                 /\ s.wait_time_ticks = 5]_vars

\* a truck whose tank is above the low-fuel threshold has been snapped onto
\* the station FUEL_A and waits there to be refuelled
C13_RefuelingAtStation ==
    \E t \in TruckIds :
        /\ trucks[t].current_node = "FUEL_A"
        /\ trucks[t].status = "REFUELING"
        /\ trucks[t].wait_time_ticks = 5
        /\ trucks[t].fuel_percent >= 20 * 200
        /\ trucks[t].alerts = <<"Refueling in progress...">>

\* C14: a REFUELING truck is served on every tick: its turn of the tick
\* either counts wait_time_ticks down by one, without moving the truck or
\* burning fuel, or ends the refuelling with a full tank and status
\* EN_ROUTE; so after five further ticks the truck has left REFUELING.
C14_RefuelingCountsDown ==
    [][\A t \in TruckIds :
         ( /\ trucks[t].status = "REFUELING"
           /\ tick.i > 0
           /\ TruckOrder[tick.i] = t
           /\ tick.awaiting = "none"
           /\ tick' # tick )
           => \/ /\ trucks[t].wait_time_ticks > 0
                 /\ trucks'[t].wait_time_ticks = trucks[t].wait_time_ticks - 1
                 /\ trucks'[t].location = trucks[t].location
                 /\ trucks'[t].fuel_percent = trucks[t].fuel_percent
              \/ /\ trucks'[t].status = "EN_ROUTE"
                 /\ trucks'[t].fuel_percent = 100 * 200]_vars

\* C15: a tick whose movement consumes a truck's last waypoint leaves the
\* truck, at the end of its turn of that tick, with status ARRIVED and
\* eta_minutes 0, also when the fuel fell below the threshold on that tick
\* and a LOW_FUEL request was answered before the turn ended; and no step
\* changes the location of an ARRIVED truck.
C15_ArrivedStaysArrived ==
    [][\A t \in TruckIds :
         /\ ( /\ tick.i > 0
              /\ TruckOrder[tick.i] = t
              /\ tick.awaiting = "none"
              /\ Len(trucks[t].route_nodes) = 2
              /\ Len(trucks'[t].route_nodes) = 1
              /\ tick'.awaiting = "none" )
              => /\ trucks'[t].status = "ARRIVED"
                 /\ trucks'[t].eta_minutes = 0
         /\ ( /\ tick.awaiting = "low_fuel"
              /\ TruckOrder[tick.i] = t
              /\ trucks[t].status = "ARRIVED"
              /\ tick' # tick )
              => /\ trucks'[t].status = "ARRIVED"
                 /\ trucks'[t].eta_minutes = 0
         /\ trucks[t].status = "ARRIVED"
              => trucks'[t].location = trucks[t].location]_vars

\* C16: in every reachable state a truck whose status is ARRIVED has at most
\* one route node left.
C16_ArrivedHasNoRouteLeft ==
    \A t \in TruckIds :
        trucks[t].status = "ARRIVED" => Len(trucks[t].route_nodes) <= 1

\* a truck has arrived: it stands on the only node its route still names,
\* with nothing left of its ETA
C16_Arrived ==
    \E t \in TruckIds :
        /\ trucks[t].status = "ARRIVED"
        /\ trucks[t].route_nodes = <<trucks[t].current_node>>
        /\ trucks[t].location = LOCATIONS_COORDS[trucks[t].current_node]
        /\ trucks[t].eta_minutes = 0

\* C17: a REROUTE Decision with a non-empty explicit node list L, for an
\* event other than LOW_FUEL, leaves the truck with route_nodes =
\* [current_node] ++ L, status REROUTING, the ad-hoc route id, eta_minutes =
\* 10 * len(L) and the rerouting notice as its alerts.
C17_ExplicitListApplied ==
    \A p \in Pending : \A d \in Answers(p) :
        ( /\ p[2] # "LOW_FUEL"
          /\ ~d.raises
          /\ d.action = "REROUTE"
          /\ d.new_route_nodes # <<>> )
          => LET tr == trucks[p[1]]
                 a  == Handled(p, d)
             IN  /\ a.route_nodes = <<tr.current_node>> \o d.new_route_nodes
                 /\ a.status = "REROUTING"
                 /\ a.active_route_id = "CUSTOM_AI_ROUTE"
                 /\ a.eta_minutes = 10 * Len(d.new_route_nodes)
                 /\ a.alerts = <<"Rerouted: reasoning">>

\* a truck that has left its hub has been rerouted, by an event other than
\* LOW_FUEL, over the two nodes J_CENTRAL and its destination
C17_ReroutedOverList ==
    \E t \in TruckIds :
        /\ trucks[t].location # LOCATIONS_COORDS[trucks[t].current_node]
        /\ trucks[t].route_nodes
             = <<trucks[t].current_node, "J_CENTRAL", trucks[t].destination_node>>
        /\ trucks[t].status = "REROUTING"
        /\ trucks[t].active_route_id = "CUSTOM_AI_ROUTE"
        /\ trucks[t].eta_minutes = 20
        /\ trucks[t].alerts = <<"Rerouted: reasoning">>

\* C18: a REROUTE Decision that names a catalog route r and carries no node
\* list, applied to a truck whose current node is c, yields route_nodes =
\* [c] ++ RoutePath(r), active_route_id = r, status REROUTING, eta_minutes =
\* r's time estimate, and route_coordinates resolved from the new route_nodes.
C18_CatalogRouteApplied ==
    \A p \in Pending : \A d \in Answers(p) :
        ( /\ ~d.raises
          /\ d.action = "REROUTE"
          /\ d.new_route_nodes = <<>>
          /\ d.selected_route_id \in DOMAIN ROUTE_PATHS )
          => LET tr == trucks[p[1]]
                 r  == d.selected_route_id
                 a  == Handled(p, d)
             IN  /\ a.route_nodes = <<tr.current_node>> \o ROUTE_PATHS[r]
                 /\ a.active_route_id = r
                 /\ a.status = "REROUTING"
                 /\ a.eta_minutes = ROUTES[r].base_time_min
                 /\ a.route_coordinates = Resolved(a.route_nodes)

\* the first truck, on its way along the highway, has been switched to the
\* city route
C18_OnCityRoute ==
    /\ trucks["T1"].location # LOCATIONS_COORDS["HUB_SOUTH"]
    /\ trucks["T1"].active_route_id = "R_SW_CITY"
    /\ trucks["T1"].route_nodes = <<"HUB_SOUTH", "J_CENTRAL", "DEST_WEST">>
    /\ trucks["T1"].route_coordinates
         = << LOCATIONS_COORDS["HUB_SOUTH"], LOCATIONS_COORDS["J_CENTRAL"],
              LOCATIONS_COORDS["DEST_WEST"] >>
    /\ trucks["T1"].status = "REROUTING"
    /\ trucks["T1"].eta_minutes = 55

\* C19: a CONTINUE Decision for an event other than LOW_FUEL leaves the
\* truck's route_nodes, route_coordinates, active_route_id, status,
\* eta_minutes, location, current_node, fuel_percent and alerts as they were;
\* only the thoughts may change.
C19_ContinueChangesNothing ==
    \A p \in Pending : \A d \in Answers(p) :
        (p[2] # "LOW_FUEL" /\ ~d.raises /\ d.action = "CONTINUE")
          => LET tr == trucks[p[1]]
                 a  == Handled(p, d)
             IN  /\ a.route_nodes = tr.route_nodes
                 /\ a.route_coordinates = tr.route_coordinates
                 /\ a.active_route_id = tr.active_route_id
                 /\ a.status = tr.status
                 /\ a.eta_minutes = tr.eta_minutes
                 /\ a.location = tr.location
                 /\ a.current_node = tr.current_node
                 /\ a.fuel_percent = tr.fuel_percent
                 /\ a.alerts = tr.alerts
                 /\ a.thoughts = d.thoughts

\* a truck on the road has been told to continue by the fallback (the only
\* Decision that leaves exactly the fallback's first thought): it is still
\* EN_ROUTE on its catalog route
C19_HeldCourse ==
    \E t \in TruckIds :
        /\ trucks[t].thoughts = <<"System: LLM Unavailable. Initiating Safety Protocol.">>
        /\ trucks[t].location # LOCATIONS_COORDS[trucks[t].current_node]
        /\ trucks[t].status = "EN_ROUTE"
        /\ trucks[t].active_route_id \in DOMAIN ROUTES
        /\ trucks[t].route_nodes
             = <<trucks[t].current_node>> \o ROUTE_PATHS[trucks[t].active_route_id]

\* the Decision names a route the catalog does not hold, or lists a node the
\* catalog does not hold
PointsOutsideCatalog(d) ==
    \/ /\ d.new_route_nodes = <<>>
       /\ d.selected_route_id # ""
       /\ d.selected_route_id \notin DOMAIN ROUTES
    \/ \E i \in 1..Len(d.new_route_nodes) :
          d.new_route_nodes[i] \notin DOMAIN LOCATIONS_COORDS

\* C20: a REROUTE Decision that points to an id absent from the catalog is
\* ignored: for any event type the truck's route_nodes, route_coordinates,
\* active_route_id, status, eta_minutes and alerts are afterwards what they
\* were before.
C20_UnknownIdIgnored ==
    \A p \in Pending : \A d \in Answers(p) :
        (~d.raises /\ d.action = "REROUTE" /\ PointsOutsideCatalog(d))
          => LET tr == trucks[p[1]]
                 a  == Handled(p, d)
             IN  /\ a.route_nodes = tr.route_nodes
                 /\ a.route_coordinates = tr.route_coordinates
                 /\ a.active_route_id = tr.active_route_id
                 /\ a.status = tr.status
                 /\ a.eta_minutes = tr.eta_minutes
                 /\ a.alerts = tr.alerts

\* the handling of the pending request p with answer d ends in an exception:
\* the decide call raises, or the fallback called by the safety override does
FailsWith(p, d) ==
    \/ d.raises
    \/ /\ p[2] = "LOW_FUEL"
       /\ d.action # "REROUTE"
       /\ _heuristic_fallback(trucks[p[1]], "LOW_FUEL", route_active).raises

\* C21: when the decision source, or the fallback called by the safety
\* override, raises while an event is handled, the truck's route_nodes,
\* route_coordinates, active_route_id, status and eta_minutes are what they
\* were when the decision was requested, and the exception does not stop the
\* tick: the step that ends a request of the tick goes on with the same
\* truck's random draw or with the next truck.
C21_FailureHoldsCourse ==
    [][/\ \A p \in Pending : \A d \in Answers(p) :
            FailsWith(p, d)
              => LET tr == trucks[p[1]]
                     a  == Handled(p, d)
                 IN  /\ a.route_nodes = tr.route_nodes
                     /\ a.route_coordinates = tr.route_coordinates
                     /\ a.active_route_id = tr.active_route_id
                     /\ a.status = tr.status
                     /\ a.eta_minutes = tr.eta_minutes
       /\ (tick.awaiting # "none" /\ <<tick'.i, tick'.awaiting>> # <<tick.i, tick.awaiting>>)
            => \/ tick'.i = tick.i /\ tick'.awaiting = "random"
               \/ tick'.i = (tick.i + 1) % (Len(TruckOrder) + 1)
                    /\ tick'.awaiting = "none"]_vars

\* two ticks are over; the first truck ran low on the first tick, and its
\* LOW_FUEL requests were answered without a REROUTE (it is still EN_ROUTE on
\* its catalog route), so their handling failed; the truck went on under its
\* plan on both ticks
C21_WentOnAfterFailure ==
    /\ current_time = 2
    /\ tick.i = 0
    /\ trucks["T1"].fuel_percent = 18 * 200 - 2 * (100 + 80)
    /\ trucks["T1"].status = "EN_ROUTE"
    /\ trucks["T1"].active_route_id = "R_SW_HWY"
    /\ trucks["T1"].route_nodes = <<"HUB_SOUTH", "J_BYPASS", "DEST_WEST">>
    /\ trucks["T1"].eta_minutes = 28
    /\ trucks["T1"].thoughts = <<"agent">>
    /\ trucks["T2"].location # LOCATIONS_COORDS["HUB_EAST"]

\* every event type the simulation or an operator raises
EventTypes == {"LOW_FUEL", "ROADBLOCK", "ROAD_CLOSED_BY_DISPATCH", "TRAFFIC_JAM",
               "NEW_LOAD_OFFER"}

\* C22: for every truck state and every event type the heuristic fallback
\* returns a Decision without raising, and for a LOW_FUEL event the Decision
\* is a REROUTE whose node list is [nearest fuel station, destination_node].
C22_FallbackAlwaysDecides ==
    \A t \in TruckIds : \A ev \in EventTypes :
        LET h == _heuristic_fallback(trucks[t], ev, route_active)
        IN  /\ ~h.raises
            /\ ev = "LOW_FUEL"
                 => /\ h.action = "REROUTE"
                    /\ Len(h.new_route_nodes) = 2
                    /\ IsFuelStation(h.new_route_nodes[1])
                    /\ h.new_route_nodes[1] \in DOMAIN LOCATIONS_COORDS
                    /\ \A o \in DOMAIN LOCATIONS_COORDS :
                         IsFuelStation(o)
                           => Dist2(trucks[t].location,
                                    LOCATIONS_COORDS[h.new_route_nodes[1]])
                                <= Dist2(trucks[t].location, LOCATIONS_COORDS[o])
                    /\ h.new_route_nodes[2] = trucks[t].destination_node

\* C23: trigger_event with a truck id outside the fleet is answered with the
\* failure value in the same step, requests no decision and leaves every truck,
\* the clock and the tick alone; a request for a known truck is answered with
\* success when its decision call returns, whatever that call did.
C23_TriggerEventReplies ==
    [][/\ \A p \in manual' : p[1] \in TruckIds
       /\ \A t \in UnknownTrucks :
            (response' # response /\ response'[1] = t)
                => /\ response'[2] = "not_found"
                   /\ trucks' = trucks
                   /\ current_time' = current_time
                   /\ tick' = tick
                   /\ manual' = manual
       /\ \A p \in manual \cup orphans :
            p \notin manual' \cup orphans' => response' = <<p[1], "success">>
       /\ (response' # response /\ response'[2] = "success")
            => \E p \in manual \cup orphans :
                 p[1] = response'[1] /\ p \notin manual' \cup orphans']_vars

\* an unknown truck was refused while the first truck's low-fuel request of
\* the second tick was in flight
C23_UnknownRefused ==
    /\ response = <<"T9", "not_found">>
    /\ current_time = 2
    /\ tick.awaiting = "low_fuel"
    /\ manual = {}

\* C24: a truck never has two decision requests of the same event class in
\* flight: while a request the tick raised for a truck has not returned, no
\* request of a manual event of the same type is in flight for that truck.
C24_OneRequestPerClass ==
    tick.awaiting # "none" => <<TruckOrder[tick.i], tick.ev>> \notin manual

\* C25: at most one simulation loop is ever alive, a loop is created only when
\* none is alive, and the clock advances (a tick begins) only when the
\* previous tick has run through every truck and every decision call it
\* awaited; state-export and start/reset requests change neither.
C25_OneTickAtATime ==
    [][/\ loops' <= 1
       /\ loops' # loops => (simulation_task = "none" /\ loops' = loops + 1)
       /\ current_time' = current_time + 1
            => (tick.i = 0 /\ tick.awaiting = "none" /\ tick'.i = 1)
       /\ (tick.i # 0 /\ tick'.i # tick.i)
            => (tick.awaiting = "none" \/ tick'.awaiting = "none")]_vars

\* a start/reset request arrived while a tick awaited a decision:
\* the loop is still the only one and the tick is still in its turn
C25_ResetDuringTick ==
    /\ loops = 1
    /\ simulation_task = "active"
    /\ tick.awaiting = "low_fuel"
    /\ tick.orphan
    /\ current_time = 0
    /\ nInputs = 1

\* the step is the turn of truck t in a tick, t is EN_ROUTE with a positive
\* ETA, and the turn does not end in a LOW_FUEL request
TurnOfEnRoute(t) ==
    /\ tick.i > 0
    /\ TruckOrder[tick.i] = t
    /\ tick.awaiting = "none"
    /\ tick' # tick
    /\ tick'.awaiting # "low_fuel"
    /\ trucks[t].status = "EN_ROUTE"
    /\ trucks[t].eta_minutes > 0

\* eta_minutes is never negative and rises only in a step that applies a
\* REROUTE Decision to the truck (or builds the fleet anew)
EtaBounded(t) ==
    /\ trucks'[t].eta_minutes >= 0
    /\ trucks'[t].eta_minutes > trucks[t].eta_minutes
         => \/ StartReset
            \/ \E p \in Pending : \E d \in Answers(p) :
                 /\ p[1] = t
                 /\ ~d.raises
                 /\ d.action = "REROUTE"
                 /\ trucks'[t] \in {Handled(p, d), EtaStep(Handled(p, d))}

----------------------------------------------------------------------------
(* Properties of route closures, checked under ClosureSpec and Spec *)

\* the step is the turn of an EN_ROUTE or REROUTING truck that the tick finds
\* on a closed route
TurnOnClosedRoute ==
    /\ tick.i > 0
    /\ tick.awaiting = "none"
    /\ tick' # tick
    /\ trucks[TruckOrder[tick.i]].status \in {"EN_ROUTE", "REROUTING"}
    /\ OnClosedRoute(trucks[TruckOrder[tick.i]])

RaisesRoadClosed ==
    tick'.awaiting = "closed" /\ tick'.ev = "ROAD_CLOSED_BY_DISPATCH"

\* C28: a tick that finds an EN_ROUTE or REROUTING truck on an inactive
\* catalog route on which the previous tick did not hold it (the route was
\* active then, or the truck was on another route) raises ROAD_CLOSED for the
\* truck, also when the truck still carries the alert of an earlier closure.
C28_EveryClosureAnswered ==
    [][(/\ TurnOnClosedRoute
        /\ held[TruckOrder[tick.i]][1] # trucks[TruckOrder[tick.i]].active_route_id)
          => RaisesRoadClosed]_vars

\* C29: a tick that finds a truck on the inactive route on which the previous
\* tick held it, the route never toggled since ROAD_CLOSED was raised for it,
\* does not raise ROAD_CLOSED again, whatever Decision the request returned.
C29_RaisedOncePerClosure ==
    [][(/\ TurnOnClosedRoute
        /\ held[TruckOrder[tick.i]] = <<trucks[TruckOrder[tick.i]].active_route_id, TRUE>>)
          => ~RaisesRoadClosed]_vars

\* C30: in every tick the turn of every truck reaches the random draw: once
\* the tick has passed a truck, the draw has been made for it, whatever its
\* status and whether or not its route is closed.
C30_EveryTruckDrawn ==
    \A k \in 1..Len(TruckOrder) : tick.i > k => TruckOrder[k] \in drawn

----------------------------------------------------------------------------
(* Properties of the movement step, checked under Spec *)

\* the step is the turn of truck t in a tick
TurnOf(t) ==
    /\ tick.i > 0
    /\ TruckOrder[tick.i] = t
    /\ tick.awaiting = "none"
    /\ tick' # tick

\* the turn of truck t moves it: the tick processes its status, its route is
\* not closed and its plan has a next waypoint
Progresses(t) ==
    /\ trucks[t].status \in {"EN_ROUTE", "REROUTING"}
    /\ ~OnClosedRoute(trucks[t])
    /\ Len(trucks[t].route_nodes) >= 2
    /\ Len(trucks[t].route_coordinates) >= 2

HeadsToStation(tr) ==
    \E i \in 2..Len(tr.route_nodes) : IsFuelStation(tr.route_nodes[i])

\* C31: the turn of a truck raises LOW_FUEL exactly when it moved the truck and,
\* after the movement and the consumption, the fuel is below 20 percent, the
\* status is none of REROUTING, REFUELING, STOPPED_FOR_FUEL and no alert tells
\* of a fuel stop; no second LOW_FUEL follows in the same turn, and none is
\* raised for a truck whose plan has a fuel station ahead.
C31_LowFuelRaisedExactlyWhenLow ==
    [][/\ \A t \in TruckIds :
            TurnOf(t)
              => /\ (tick'.awaiting = "low_fuel" /\ tick'.ev = "LOW_FUEL")
                      <=> /\ Progresses(t)
                          /\ trucks'[t].fuel_percent < 20 * 200
                          /\ trucks'[t].status
                                \notin {"REROUTING", "REFUELING", "STOPPED_FOR_FUEL"}
                          /\ \A i \in 1..Len(trucks'[t].alerts) :
                                trucks'[t].alerts[i] \notin
                                  {"Heading to fuel station...",
                                   "Heading to fuel station (Safety Override)"}
                 /\ tick'.awaiting = "low_fuel" => ~HeadsToStation(trucks'[t])
       /\ tick.awaiting \in {"closed", "random"} => tick'.awaiting # "low_fuel"]_vars

\* on the second tick the first truck, moved and below 20 percent, has its
\* LOW_FUEL request in flight
C31_LowFuelInFlight ==
    /\ current_time = 2
    /\ tick = Awaiting(1, "low_fuel", "LOW_FUEL", FALSE)
    /\ trucks["T1"].fuel_percent = 18 * 200 - 2 * (100 + 80)
    /\ trucks["T1"].status = "EN_ROUTE"

\* fuel levels around one tick's consumption, in 1/200 percent
FuelLevels == {0, 1, 100, 159, 160, 161, 179, 180, 181, 4000, 20000}

\* base_rate * (1 + capacity_used_percent / 100) with base_rate 0.5, in 1/200
\* percent
Burn(tr) == 100 + tr.capacity_used_percent

Least(a, b) == IF a < b THEN a ELSE b

\* C32: the turn of a truck lowers its fuel by exactly
\* min(fuel_percent, base_rate * (1 + capacity_used_percent / 100)) when it
\* moves the truck and leaves it unchanged when it does not; no other step of
\* a tick changes the fuel; the consumption of a tick never takes the fuel
\* below 0, whatever the level the truck of the turn starts from.
C32_BurnsWhenMoved ==
    [][/\ \A t \in TruckIds :
            \/ IF TurnOf(t) /\ Progresses(t)
               THEN trucks'[t].fuel_percent =
                      trucks[t].fuel_percent - Least(trucks[t].fuel_percent, Burn(trucks[t]))
               ELSE trucks'[t].fuel_percent = trucks[t].fuel_percent
            \/ StartReset
       /\ \A t \in TruckIds : trucks'[t].fuel_percent >= 0
       /\ \A t \in TruckIds :
            TurnOf(t) => \A f \in FuelLevels :
                LET tr == [trucks[t] EXCEPT !.fuel_percent = f]
                IN  /\ ConsumeFuel(tr).fuel_percent = f - Least(f, Burn(tr))
                    /\ ConsumeFuel(tr).fuel_percent >= 0]_vars

\* two ticks are over: the first truck, held on its closed route on both, has
\* the fuel it started with; the second has burnt twice
C32_BurntOnlyWhenMoved ==
    /\ current_time = 2
    /\ tick.i = 0
    /\ OnClosedRoute(trucks["T1"])
    /\ trucks["T1"].location = LOCATIONS_COORDS["HUB_SOUTH"]
    /\ trucks["T1"].fuel_percent = initial_config.T1.fuel_percent * 200
    /\ trucks["T2"].fuel_percent = 90 * 200 - 2 * (100 + 60)

\* fuel levels from which one tick of the truck crosses the low-fuel
\* threshold, and the first from which it does not, in 1/200 percent
CrossingLevels(tr) == {20 * 200, 20 * 200 + Burn(tr) - 1, 20 * 200 + Burn(tr)}

\* the low-fuel conditions of the claim on a truck state
LowOnFuel(tr) ==
    /\ tr.fuel_percent < 20 * 200
    /\ tr.status \notin {"REROUTING", "REFUELING", "STOPPED_FOR_FUEL"}
    /\ \A i \in 1..Len(tr.alerts) :
         tr.alerts[i] \notin {"Heading to fuel station...",
                              "Heading to fuel station (Safety Override)"}

InFlight(tr) == \A n \in DOMAIN LOCATIONS_COORDS : tr.location # LOCATIONS_COORDS[n]

\* C34: whatever Decision a request returns (any action, any impact, any
\* event type, the safety override included), the step that applies it, for a
\* request of the tick or of an operator, leaves the truck's location,
\* current_node, fuel_percent, capacity_used_percent and wait_time_ticks as
\* they were: a truck rerouted between two waypoints stays where it stands.
C34_DecisionKeepsPosition ==
    [][\A t \in TruckIds :
         (\/ /\ tick.awaiting # "none"
             /\ TruckOrder[tick.i] = t
             /\ tick' # tick
          \/ \E ev \in ManualEvents : <<t, ev>> \in manual /\ <<t, ev>> \notin manual')
           => \/ /\ trucks'[t].location = trucks[t].location
                 /\ trucks'[t].current_node = trucks[t].current_node
                 /\ trucks'[t].fuel_percent = trucks[t].fuel_percent
                 /\ trucks'[t].capacity_used_percent = trucks[t].capacity_used_percent
                 /\ trucks'[t].wait_time_ticks = trucks[t].wait_time_ticks
              \/ StartReset]_vars

\* the first truck was rerouted to a fuel station while it stood between two
\* waypoints; at its turn of the second tick it still stands off every
\* waypoint, its new plan starting at the node it left
C34_ReroutedInFlight ==
    /\ current_time = 2
    /\ tick.i = 1
    /\ tick.awaiting = "none"
    /\ InFlight(trucks["T1"])
    /\ trucks["T1"].status = "REROUTING"
    /\ trucks["T1"].alerts = <<"Heading to fuel station...">>
    /\ trucks["T1"].route_coordinates[1] # trucks["T1"].location

----------------------------------------------------------------------------
(* Properties of the routing client, checked under RouteSpec *)

\* the step is caller c entering get_route
IssuedRoute(c) == nCalls' = nCalls + 1 /\ Free(c) /\ callers'[c].op = "route"

\* the step is caller c entering either operation
Issued(c) == nCalls' = nCalls + 1 /\ Free(c)

SamePlace(p) ==
    Abs(p[1][1] - p[2][1]) < Tolerance /\ Abs(p[1][2] - p[2][2]) < Tolerance

KeyOf(p) == <<Round5(p[1][1]), Round5(p[1][2]), Round5(p[2][1]), Round5(p[2][2])>>

\* C4: get_route for two points whose latitudes and longitudes both differ by
\* less than the tolerance returns distance 0 and duration 0 at once, sends no
\* request, and leaves the cooldown timestamp, the caches and the circuit as
\* they were, whether the circuit is open or not.
C4_IdenticalPoints ==
    [][\A c \in Callers :
         IssuedRoute(c) /\ SamePlace(callers'[c].arg)
           => /\ callers'[c].pc = "done"
              /\ callers'[c].result.distance = 0
              /\ callers'[c].result.duration = 0
              /\ callers'[c].n = 0
              /\ UNCHANGED <<now, last_osrm_call, route_cache, table_cache,
                             circuit_open, circuit_reset_time, provider>>]_vars

\* the zero answer was given for two different points while the circuit is open
C4_ZeroWhileOpen ==
    \E c \in Callers :
        /\ callers[c].pc = "done"
        /\ callers[c].op = "route"
        /\ callers[c].arg[1] # callers[c].arg[2]
        /\ callers[c].result.src = "identical"
        /\ circuit_open
        /\ now < circuit_reset_time

\* C5: a get_route call for a pair that rounds to the five decimals of a pair
\* the provider has answered before returns the provider's answer from the
\* cache: it sends no request, waits for no cooldown (no time passes, it never
\* sleeps), and does so even if the circuit is open.
C5_SecondFromCache ==
    [][\A c \in Callers :
         /\ IssuedRoute(c)
         /\ ~SamePlace(callers'[c].arg)
         /\ KeyOf(callers'[c].arg) \in provider.answered
         => /\ callers'[c].pc = "done"
            /\ callers'[c].result.src = "provider"
            /\ callers'[c].n = 0
            /\ now' = now
            /\ provider' = provider
            /\ last_osrm_call' = last_osrm_call]_vars

\* a call was served from the cache with the answer given to another pair of
\* the same five decimals, while the circuit is open
C5_CachedWhileOpen ==
    \E c \in Callers :
        /\ callers[c].pc = "done"
        /\ callers[c].op = "route"
        /\ callers[c].result.src = "provider"
        /\ callers[c].n = 0
        /\ callers[c].result.coordinates[1] # callers[c].arg[1]
        /\ circuit_open
        /\ now < circuit_reset_time

\* C6: a call that needs the provider and is issued less than 300 s after the
\* provider's last 429 answer sends no request, never sleeps and returns the
\* fallback; the first such call issued once the 300 s are over closes the
\* circuit, goes on to the request and does not return before it has sent one.
C6_CircuitWindow ==
    [][\A c \in Callers :
         /\ callers'[c].window = "inside"
              => /\ callers'[c].n = 0
                 /\ callers'[c].pc \in {"cooldown", "done"}
                 /\ callers'[c].pc = "done" => callers'[c].result.src = "fallback"
         /\ callers[c].window = "after" /\ callers[c].pc = "cooldown" /\ callers[c].attempt = 0
              => /\ ~circuit_open'
                 /\ callers'[c].pc \in {"sleep", "request"}
         /\ callers'[c].window = "after" /\ callers'[c].pc = "done"
              => callers'[c].n >= 1]_vars

\* a matrix call issued while the circuit was open has returned the fallback
C6_Shed ==
    \E c \in Callers :
        /\ callers[c].window = "inside"
        /\ callers[c].op = "table"
        /\ callers[c].pc = "done"
        /\ callers[c].result.src = "fallback"
        /\ circuit_open

\* the first call after the window has closed the circuit and got an answer
C6_Reclosed ==
    \E c \in Callers :
        /\ callers[c].window = "after"
        /\ callers[c].pc = "done"
        /\ callers[c].result.src = "provider"
        /\ ~circuit_open

\* C7: any two requests to the provider are sent at least 2.5 s apart.
C7_Spaced ==
    [][\A c \in Callers :
         /\ callers[c].pc = "request"
         /\ callers'[c].pc # "request"
         /\ provider.last # NoTime
         => now - provider.last >= Spacing]_vars

\* C8: one get_route call sends at most 2 requests and makes at most 2
\* attempts; it returns the fallback only after the second attempt has
\* failed; once it has returned (in particular with the answer to its first
\* request) it sends nothing more.
C8_AtMostTwo ==
    [][\A c \in Callers :
         /\ callers'[c].op = "route"
              => /\ callers'[c].n <= 2
                 /\ callers'[c].attempt <= 1
                 /\ callers'[c].n <= callers'[c].attempt + 1
                 /\ callers'[c].pc = "done" /\ callers'[c].result.src = "fallback"
                      => callers'[c].attempt = 1
         /\ callers[c].pc = "done" /\ ~Issued(c) => callers'[c] = callers[c]]_vars

\* a call has returned the fallback after two requests
C8_TwoFailures ==
    \E c \in Callers :
        /\ callers[c].op = "route"
        /\ callers[c].pc = "done"
        /\ callers[c].result.src = "fallback"
        /\ callers[c].n = 2

\* a call has returned the answer to its first request
C8_FirstAnswered ==
    \E c \in Callers :
        /\ callers[c].op = "route"
        /\ callers[c].pc = "done"
        /\ callers[c].result.src = "provider"
        /\ callers[c].attempt = 0
        /\ callers[c].n = 1

\* the step is caller c returning the fallback from get_route
ReturnsFallback(c) ==
    /\ callers[c].pc \in {"cooldown", "request"}
    /\ callers'[c].pc = "done"
    /\ callers'[c].op = "route"
    /\ callers'[c].result.src = "fallback"

ValidResult(k) ==
    IF k.op = "route"
    THEN /\ k.result.src \in {"identical", "provider", "fallback"}
         /\ k.result.distance >= 0
         /\ k.result.duration >= 0
         /\ k.result.src = "fallback" => k.result.coordinates = k.arg
    ELSE /\ k.result.src \in {"provider", "fallback"}
         /\ Len(k.result.matrix) = Len(k.arg)
         /\ \A i \in 1..Len(k.arg) : Len(k.result.matrix[i]) = Len(k.arg)
         /\ k.result.src = "fallback" => \A i \in 1..Len(k.arg) : k.result.matrix[i][i] = 0

\* C10: no call of get_route or get_distance_matrix ends in an exception,
\* whatever the provider does; a call that has returned has returned a value:
\* a route result with distance and duration, or a square matrix of the size
\* of the request, with a zero diagonal when it is the fallback.
C10_NeverRaises ==
    \A c \in Callers :
        /\ callers[c].pc \in {"idle", "cooldown", "sleep", "request", "done"}
        /\ callers[c].pc = "done" => ValidResult(callers[c])

\* a matrix request timed out and the call returned the fallback matrix
C10_TimedOutTable ==
    \E c \in Callers :
        /\ callers[c].op = "table"
        /\ callers[c].pc = "done"
        /\ callers[c].result.src = "fallback"
        /\ callers[c].n = 1
        /\ now = provider.last + TableTimeout
        /\ callers[c].result.matrix[1][2] > 0

\* C26: while the circuit is open and its reset time has not come, no caller
\* starts a request to the provider, whether it comes from the circuit check
\* or out of the cooldown sleep, and the reset time is not moved.
C26_OpenCircuitHoldsSleepers ==
    [][(circuit_open /\ now < circuit_reset_time)
         => /\ \A c \in Callers :
                 callers[c].pc # "request" => callers'[c].pc # "request"
            /\ circuit_reset_time' = circuit_reset_time]_vars

\* both coroutines are inside get_route for the same rounded pair
SamePair(c, o) ==
    /\ c # o
    /\ callers[c].op = "route"
    /\ callers[o].op = "route"
    /\ cache_key(callers[c].arg[1], callers[c].arg[2])
         = cache_key(callers[o].arg[1], callers[o].arg[2])

\* C35: when a get_route call for a rounded pair starts while another call
\* for the same pair is suspended in the cooldown wait, the provider is still
\* invoked once for the pair: once the provider has answered one of the two
\* calls (its answer is in the cache), the other one is not inside a request
\* to the provider.
C35_OneInvocationPerPair ==
    \A c \in Callers : \A o \in Callers :
        (/\ SamePair(c, o)
         /\ callers[c].pc = "done"
         /\ callers[c].result.src = "provider"
         /\ callers[c].n >= 1
         /\ cache_key(callers[c].arg[1], callers[c].arg[2]) \in DOMAIN route_cache)
          => callers[o].pc # "request"

\* C36: the matrix get_distance_matrix returns for the list L holds at [i][j]
\* the provider's duration of the leg from L[i] to L[j], for every two
\* different positions of L, also when the matrix comes from the table cache
\* after an earlier call with the same points in another order.
C36_EntriesFollowInput ==
    \A c \in Callers :
        (/\ callers[c].op = "table"
         /\ callers[c].pc = "done"
         /\ callers[c].result.src = "provider")
          => \A i \in 1..Len(callers[c].arg) : \A j \in 1..Len(callers[c].arg) :
                 i # j => callers[c].result.matrix[i][j]
                            = <<callers[c].arg[i], callers[c].arg[j]>>

----------------------------------------------------------------------------
(* Properties of a trip, checked under TripSpec *)

\* the truck stands at its destination
Arrived(t) ==
    /\ trucks[t].status = "ARRIVED"
    /\ trucks[t].current_node = trucks[t].destination_node
    /\ trucks[t].location = LOCATIONS_COORDS[trucks[t].destination_node]

\* x lies between a and b
Between(x, a, b) == (a <= x /\ x <= b) \/ (b <= x /\ x <= a)

\* C37: from the initial fleet, with every catalog route open and no event,
\* once the loop ticks every truck reaches ARRIVED at its destination node,
\* standing on that node's coordinate, and stays there.  On the way it takes
\* the waypoints of its plan in order (the plan only loses its first node,
\* which the truck then stands on) and never goes past the waypoint it heads
\* for: it either lands on it, from less than a step away, or comes closer to
\* it inside the box the two points span.
C37_EveryTruckArrives ==
    /\ [][\A t \in TruckIds :
            LET tr == trucks[t]
                nx == trucks'[t]
            IN  /\ Arrived(t) => nx = tr
                /\ nx.status \in {"EN_ROUTE", "ARRIVED"}
                /\ nx.route_nodes # tr.route_nodes
                     => /\ nx.route_nodes = Tail(tr.route_nodes)
                        /\ nx.current_node = tr.route_nodes[2]
                        /\ nx.location = LOCATIONS_COORDS[tr.route_nodes[2]]
                        /\ Dist2(tr.location, nx.location) < speed * speed
                /\ (nx.location # tr.location /\ nx.route_nodes = tr.route_nodes)
                     => LET target == LOCATIONS_COORDS[tr.route_nodes[2]]
                        IN  /\ Dist2(nx.location, target) < Dist2(tr.location, target)
                            /\ Between(nx.location[1], tr.location[1], target[1])
                            /\ Between(nx.location[2], tr.location[2], target[2])
                /\ nx.status = "ARRIVED" <=> Len(nx.route_nodes) = 1]_vars
    /\ \A t \in TruckIds : is_task_active ~> Arrived(t)

\* the whole fleet has arrived, the last truck in the tick before
C37_FleetArrived ==
    /\ \A t \in TruckIds : Arrived(t)
    /\ \A t \in TruckIds : trucks[t].route_nodes = <<trucks[t].destination_node>>
    /\ current_time > 20
    /\ tick = Running(0)

====
